---- MODULE Spec2Model ----
(***************************************************************************)
(* A model of app1.py, the Streamlit personal finance dashboard.           *)
(*                                                                         *)
(* Streamlit runs the whole script from top to bottom on every user        *)
(* interaction.  The state of a session is therefore the state of the      *)
(* widgets (data source, uploaded file, submitted form, filter widgets)    *)
(* together with what the last run of the script computed (df, dff, the    *)
(* KPIs, the download payload, the sidebar error).  Every action below is  *)
(* one interaction followed by one complete run of the script.  The        *)
(* display controls change what is drawn only, and are not in the state.   *)
(*                                                                         *)
(* Text is a sequence of atoms (an atom is a blank " " or a chunk without  *)
(* blanks), so that str.strip() and str.join() are computed, not assumed.  *)
(* A cell of a DataFrame or of a CSV file is a record [k, n, t, s]:        *)
(*   k = kind, n = number / day, t = time of day, s = text.                *)
(* Days are numbered 1, 2, ...; amounts are integers (hundredths).         *)
(***************************************************************************)
EXTENDS Integers, Sequences, FiniteSets, TLC

VARIABLES data_source, uploaded_file, form, selected_cats, selected_genders,
          dr, df, dff, total, avg, mx, count, csv, error, raised

vars == <<data_source, uploaded_file, form, selected_cats, selected_genders,
          dr, df, dff, total, avg, mx, count, csv, error, raised>>

----------------------------------------------------------------------------
(* Bounds of the model *)

\* rows of an uploaded file
MaxRows == 2
\* days the modelled user can pick in a date widget: 1..MaxDay
MaxDay == 2

----------------------------------------------------------------------------
(* Cells *)

Val(k, n, t, s) == [k |-> k, n |-> n, t |-> t, s |-> s]

\* Python / pandas values held in a DataFrame
Str(s) == Val("str", 0, 0, s)
NaN == Val("nan", 0, 0, <<>>)
Num(n) == Val("num", n, 0, <<>>)
Inf(sign) == Val("inf", sign, 0, <<>>)
Ts(d, t) == Val("ts", d, t, <<>>)
NaT == Val("nat", 0, 0, <<>>)
\* a str that reads as a date ("2025-01-05") or as a date and a time
DateStr(d) == Val("datestr", d, 0, <<>>)
DateTimeStr(d, t) == Val("datetimestr", d, t, <<>>)
\* the mean of finite numbers, as the fraction n / t
Ratio(n, t) == Val("ratio", n, t, <<>>)
\* Python None (no DataFrame)
None == [cols |-> <<>>, rows |-> <<>>, none |-> TRUE]

Table(cols, rows) == [cols |-> cols, rows |-> rows, none |-> FALSE]

Range(f) == {f[i] : i \in DOMAIN f}

T(a) == <<a>>

\* the text a CSV file holds in one cell
CsvEmpty == Val("empty", 0, 0, <<>>)
CsvNum(n) == Val("numtxt", n, 0, <<>>)
CsvInf(sign) == Val("inftxt", sign, 0, <<>>)
CsvDate(d) == Val("datetxt", d, 0, <<>>)
CsvDateTime(d, t) == Val("datetimetxt", d, t, <<>>)
CsvText(s) == Val("txt", 0, 0, s)

----------------------------------------------------------------------------
(* Text *)

IsSpace(a) == a = " "

\* str.lstrip()
RECURSIVE LStrip(_)
LStrip(s) == IF s # <<>> /\ IsSpace(Head(s)) THEN LStrip(Tail(s)) ELSE s

\* str.rstrip()
RECURSIVE RStrip(_)
RStrip(s) ==
  IF s # <<>> /\ IsSpace(s[Len(s)]) THEN RStrip(SubSeq(s, 1, Len(s) - 1)) ELSE s

\* str.strip()
Strip(s) == RStrip(LStrip(s))

\* sep.join(parts)
RECURSIVE Join(_, _)
Join(parts, sep) ==
  IF parts = <<>> THEN <<>>
  ELSE IF Len(parts) = 1 THEN parts[1]
  ELSE parts[1] \o sep \o Join(Tail(parts), sep)

\* the literals of lines 135, 146 and 148
TagsSep == <<" ", "|", " ", "Tags:", " ">>
CommaSep == <<",", " ">>
EmptyLabel == <<"(empty)">>
NotSpecified == <<"Not", " ", "specified">>

----------------------------------------------------------------------------
(* Columns of a table *)

RequiredCols == <<"Date", "Category", "Amount", "Notes", "Gender">>

HasCol(tb, c) == c \in Range(tb.cols)

\* df[c] = vals : replaces the column, or appends it after the others
SetCol(tb, c, vals) ==
  Table(IF HasCol(tb, c) THEN tb.cols ELSE Append(tb.cols, c),
        [i \in 1..Len(tb.rows) |->
           [x \in Range(tb.cols) \cup {c} |->
              IF x = c THEN vals[i] ELSE tb.rows[i][x]]])

\* df[c] = v : the scalar v in every row
FillCol(tb, c, v) == SetCol(tb, c, [i \in 1..Len(tb.rows) |-> v])

\* df.loc[mask]
Select(tb, mask) ==
  LET F[i \in 0..Len(tb.rows)] ==
        IF i = 0 THEN <<>>
        ELSE IF mask[i] THEN Append(F[i - 1], tb.rows[i]) ELSE F[i - 1]
  IN Table(tb.cols, F[Len(tb.rows)])

----------------------------------------------------------------------------
(* Reading and writing CSV *)

\* the texts pandas reads as a missing value
NaTexts == {<<"nan">>, <<"NaN">>, <<"NA">>, <<"null">>}

\* pd.read_csv on one cell
ReadCell(c) ==
  CASE c.k = "empty" -> NaN
    [] c.k = "numtxt" -> Num(c.n)
    [] c.k = "inftxt" -> Inf(c.n)
    [] c.k = "datetxt" -> DateStr(c.n)
    [] c.k = "datetimetxt" -> DateTimeStr(c.n, c.t)
    [] OTHER -> IF c.s \in NaTexts THEN NaN ELSE Str(c.s)

ReadCsv(file) ==
  Table(file.cols,
        [i \in 1..Len(file.rows) |->
           [x \in Range(file.cols) |-> ReadCell(file.rows[i][x])]])

\* a datetime column is written with the time part when any value has one
HasTime(tb, c) == \E i \in 1..Len(tb.rows) : tb.rows[i][c].k = "ts" /\ tb.rows[i][c].t # 0

\* DataFrame.to_csv on one cell
WriteCell(v, withTime) ==
  CASE v.k = "str" -> IF v.s = <<>> THEN CsvEmpty ELSE CsvText(v.s)
    [] v.k = "num" -> CsvNum(v.n)
    [] v.k = "inf" -> CsvInf(v.n)
    [] v.k = "ts" -> IF withTime THEN CsvDateTime(v.n, v.t) ELSE CsvDate(v.n)
    [] v.k = "datestr" -> CsvDate(v.n)
    [] v.k = "datetimestr" -> CsvDateTime(v.n, v.t)
    [] OTHER -> CsvEmpty

to_csv_bytes(tb) ==
  Table(tb.cols,
        [i \in 1..Len(tb.rows) |->
           [x \in Range(tb.cols) |-> WriteCell(tb.rows[i][x], HasTime(tb, x))]])

----------------------------------------------------------------------------
(* Loading: lines 43-94 *)

\* the fallback of load_sample_df; days 1, 2, 3 are 2025-01-05, 2025-01-07
\* and 2025-02-02
SampleRow(d, cat, amt, notes) ==
  [x \in Range(RequiredCols) |->
     CASE x = "Date" -> DateStr(d)
       [] x = "Category" -> Str(cat)
       [] x = "Amount" -> Num(amt)
       [] x = "Notes" -> Str(notes)
       [] OTHER -> Str(NotSpecified)]

load_sample_df ==
  LET t == Table(RequiredCols,
                 << SampleRow(1, T("Groceries"), 1200, <<"Big", " ", "bazaar">>),
                    SampleRow(2, T("Transport"), 60, T("Auto")),
                    SampleRow(3, T("Utility"), 2100, <<"Electricity", " ", "Bill">>) >>)
  IN IF HasCol(t, "Gender") THEN t ELSE FillCol(t, "Gender", Str(NotSpecified))

\* lines 77-90: the table read, or None, and whether the sidebar shows an error
LoadDf(source, file) ==
  IF source = "Upload file"
  THEN CASE file.st = "none" -> [df |-> None, error |-> FALSE]
         [] file.st = "bad" -> [df |-> None, error |-> TRUE]
         [] OTHER -> [df |-> ReadCsv(file.csv), error |-> FALSE]
  ELSE [df |-> load_sample_df, error |-> FALSE]

----------------------------------------------------------------------------
(* Normalization: lines 92-105 *)

\* lines 93-94 left out: None goes on
DefensiveEmptyLeftOut(t) == t

\* lines 93-94
DefensiveEmpty(t) == IF t.none THEN Table(RequiredCols, <<>>) ELSE t

\* lines 97-99 with Notes forgotten in the list of line 97
AddMissingNoNotes(t) ==
  LET Add(tb, c) ==
        IF HasCol(tb, c) THEN tb
        ELSE FillCol(tb, c, IF c # "Amount" THEN Str(<<>>) ELSE Num(0))
  IN Add(Add(Add(t, "Category"), "Amount"), "Gender")

\* lines 97-99, for the columns Category, Amount, Notes, Gender in this order
AddMissing(t) ==
  LET Add(tb, c) ==
        IF HasCol(tb, c) THEN tb
        ELSE FillCol(tb, c, IF c # "Amount" THEN Str(<<>>) ELSE Num(0))
  IN Add(Add(Add(Add(t, "Category"), "Amount"), "Notes"), "Gender")

\* pd.to_datetime(errors="coerce"), each value parsed on its own; a number
\* counts from the epoch
ToDatetime(v) ==
  CASE v.k = "ts" -> v
    [] v.k = "datestr" -> Ts(v.n, 0)
    [] v.k = "datetimestr" -> Ts(v.n, v.t)
    [] v.k = "num" -> Ts(0, v.n)
    [] OTHER -> NaT

ensure_datetime_col(tb, col) ==
  IF HasCol(tb, col)
  THEN SetCol(tb, col, [i \in 1..Len(tb.rows) |-> ToDatetime(tb.rows[i][col])])
  ELSE FillCol(tb, col, NaT)

\* pd.to_numeric(errors="coerce") on one value
ToNumeric(v) == IF v.k \in {"num", "inf"} THEN v ELSE NaN

\* .fillna(0.0)
FillNa(v, z) == IF v.k = "nan" THEN z ELSE v

\* line 105 without .fillna(0.0)
CoerceAmountNoFill(v) == ToNumeric(v)

\* line 105
CoerceAmount(v) == FillNa(ToNumeric(v), Num(0))

NormalizeAmount(tb) ==
  SetCol(tb, "Amount", [i \in 1..Len(tb.rows) |-> CoerceAmount(tb.rows[i]["Amount"])])

\* lines 97-105; df.columns of None raises at line 98, and the result is None
NormalizeTable(e) ==
  IF e.none THEN None
  ELSE NormalizeAmount(ensure_datetime_col(AddMissing(e), "Date"))

\* lines 92-105
Normalize(t) == NormalizeTable(DefensiveEmpty(t))

----------------------------------------------------------------------------
(* The add-transaction form: lines 115-138 *)

GenderOptions ==
  {T("Male"), T("Female"), T("Other"),
   <<"Prefer", " ", "not", " ", "to", " ", "say">>}

DefaultCats ==
  {T("Groceries"), T("Transport"), T("Entertainment"), T("Utility"),
   T("Health"), T("Travel")}

TagOptions == {T("food"), T("monthly"), T("one-time"), T("refund"), T("family")}

\* .astype(str) on one value
AsStr(v) ==
  CASE v.k = "str" -> v.s
    [] v.k = "nan" -> T("nan")
    [] v.k = "nat" -> T("NaT")
    [] v.k \in {"num", "ts", "datestr", "datetimestr"} -> <<v.k, ToString(v.n), ToString(v.t)>>
    [] OTHER -> T(v.k)

\* line 118, as a set
cat_options(tb) == {AsStr(tb.rows[i]["Category"]) : i \in 1..Len(tb.rows)} \cup DefaultCats

\* line 135 without .strip()
NewNotesNoStrip(notes, tags) ==
  IF tags # <<>> THEN notes \o TagsSep \o Join(tags, CommaSep) ELSE notes

\* lines 127-135
NewNotes(notes, tags) ==
  IF tags # <<>> THEN Strip(notes \o TagsSep \o Join(tags, CommaSep)) ELSE notes

new_row(f) ==
  [x \in Range(RequiredCols) |->
     CASE x = "Date" -> Ts(f.date_input, 0)
       [] x = "Category" -> Str(f.cat)
       [] x = "Amount" -> Num(f.amount)
       [] x = "Notes" -> Str(NewNotes(f.notes, f.tags))
       [] OTHER -> Str(f.gender)]

\* line 137: pd.concat([df, pd.DataFrame([new_row])], ignore_index=True)
Concat(tb, row) ==
  Table(tb.cols,
        Append(tb.rows,
               [x \in Range(tb.cols) |->
                  IF x \in DOMAIN row THEN row[x] ELSE NaN]))

----------------------------------------------------------------------------
(* Filters: lines 146-179 *)

\* datetime.today().date(), as a day number
Today == 2

\* .astype(str).replace("", dflt) on one value
Label(v, dflt) == IF AsStr(v) = <<>> THEN dflt ELSE AsStr(v)

\* lines 146 and 148, as sets
cats_all(tb) == {Label(tb.rows[i]["Category"], EmptyLabel) : i \in 1..Len(tb.rows)}
genders_all(tb) == {Label(tb.rows[i]["Gender"], NotSpecified) : i \in 1..Len(tb.rows)}

\* the days of df["Date"].dropna()
NonNullDays(tb) ==
  {tb.rows[i]["Date"].n : i \in {j \in 1..Len(tb.rows) : tb.rows[j]["Date"].k = "ts"}}

SetMin(S) == CHOOSE x \in S : \A y \in S : x <= y
SetMax(S) == CHOOSE x \in S : \A y \in S : y <= x

\* lines 151-157: (min_date, max_date)
DefaultRange(tb) ==
  IF NonNullDays(tb) # {}
  THEN <<SetMin(NonNullDays(tb)), SetMax(NonNullDays(tb))>>
  ELSE <<Today, Today>>

\* a <= b on timestamps
TsLeq(a, b) == a.n < b.n \/ (a.n = b.n /\ a.t <= b.t)

\* Series.between(start_ts, end_ts) on one value; NaT compares False
Between(v, start_ts, end_ts) ==
  v.k = "ts" /\ TsLeq(start_ts, v) /\ TsLeq(v, end_ts)

mask_cat(row, cats) == Label(row["Category"], EmptyLabel) \in cats
mask_gender(row, genders) == Label(row["Gender"], NotSpecified) \in genders
\* lines 166-169 and 176
mask_date(row, range) == Between(row["Date"], Ts(range[1], 0), Ts(range[2], 0))

\* lines 178-179
Filter(tb, cats, genders, range) ==
  Select(tb, [i \in 1..Len(tb.rows) |->
                mask_cat(tb.rows[i], cats) /\ mask_gender(tb.rows[i], genders)
                /\ mask_date(tb.rows[i], range)])

\* .dt.to_period("M").astype(str); the model's months hold two days each
MonthOf(d) == (d + 1) \div 2
MonthStr(v) == IF v.k = "ts" THEN Str(<<"2025-", ToString(MonthOf(v.n))>>) ELSE Str(T("NaT"))

\* lines 185-188
WithMonth(tb) ==
  IF Len(tb.rows) > 0 /\ \E i \in 1..Len(tb.rows) : tb.rows[i]["Date"].k = "ts"
  THEN SetCol(tb, "Month", [i \in 1..Len(tb.rows) |-> MonthStr(tb.rows[i]["Date"])])
  ELSE FillCol(tb, "Month", Str(<<>>))

----------------------------------------------------------------------------
(* KPIs: lines 191-198 *)

\* float addition
FAdd(a, b) ==
  CASE a.k = "nan" \/ b.k = "nan" -> NaN
    [] a.k = "inf" /\ b.k = "inf" -> IF a.n = b.n THEN a ELSE NaN
    [] a.k = "inf" -> a
    [] b.k = "inf" -> b
    [] OTHER -> Num(a.n + b.n)

\* a <= b on floats that are not NaN
FLeq(a, b) ==
  CASE a.k = "inf" -> a.n = -1 \/ (b.k = "inf" /\ b.n = 1)
    [] b.k = "inf" -> b.n = 1
    [] OTHER -> a.n <= b.n

\* Series.sum()
Sum(tb) ==
  LET F[i \in 0..Len(tb.rows)] ==
        IF i = 0 THEN Num(0) ELSE FAdd(F[i - 1], tb.rows[i]["Amount"])
  IN F[Len(tb.rows)]

\* the sum s of n values divided by n, NaN of no value
Divided(s, n) ==
  IF n = 0 THEN NaN ELSE IF s.k = "num" THEN Ratio(s.n, n) ELSE s

\* Series.mean()
Mean(tb) == Divided(Sum(tb), Len(tb.rows))

\* Series.max(), NaN of no value
Max(tb) ==
  LET F[i \in 1..Len(tb.rows)] ==
        IF i = 1 THEN tb.rows[1]["Amount"]
        ELSE IF FLeq(F[i - 1], tb.rows[i]["Amount"]) THEN tb.rows[i]["Amount"]
        ELSE F[i - 1]
  IN IF Len(tb.rows) = 0 THEN NaN ELSE F[Len(tb.rows)]

KpiTotal(tb) == Sum(tb)
\* line 192 without the guard on len(dff)
KpiAvgNoGuard(tb) == Mean(tb)

KpiAvg(tb) == IF Len(tb.rows) # 0 THEN Mean(tb) ELSE Num(0)
KpiCount(tb) == Len(tb.rows)
KpiMax(tb) == IF KpiCount(tb) # 0 THEN Max(tb) ELSE Num(0)

----------------------------------------------------------------------------
(* One run of the script *)

NoFile == [st |-> "none", csv |-> Table(<<>>, <<>>)]
BadFile == [st |-> "bad", csv |-> Table(<<>>, <<>>)]
CsvFile(t) == [st |-> "ok", csv |-> t]

\* the form as it is when "Submit transaction" was not pressed
NoSubmit ==
  [submit |-> FALSE, gender |-> <<>>, cat |-> <<>>, date_input |-> Today,
   amount |-> 0, notes |-> <<>>, tags |-> <<>>]

\* lines 75-137: the ledger of this run
Appended(t, f) ==
  IF t.none THEN None ELSE IF f.submit THEN Concat(t, new_row(f)) ELSE t

Ledger(source, file, f) == Appended(Normalize(LoadDf(source, file).df), f)

\* A filter widget keeps the user's selection while its options and default
\* are those of the run before, and shows its default otherwise.
Kept(old, new, sel) == IF old = new THEN sel ELSE new

\* what is left of a run that raised: nothing is computed or shown
Raised(err) ==
  [df |-> None, cats |-> {}, genders |-> {}, dr |-> <<Today, Today>>,
   dff |-> None, total |-> NaN, avg |-> NaN, count |-> 0, mx |-> NaN,
   csv |-> None, error |-> err, raised |-> TRUE]

\* lines 190-199: the KPIs and the download of the filtered subset x
Outputs(d, err, sc, sg, r, x) ==
  [df |-> d, cats |-> sc, genders |-> sg, dr |-> r, dff |-> x,
   total |-> KpiTotal(x), avg |-> KpiAvg(x), count |-> KpiCount(x),
   mx |-> KpiMax(x), csv |-> to_csv_bytes(x), error |-> err, raised |-> FALSE]

\* lines 165-188: the filtered subset of the ledger d
Filtered(d, err, sc, sg, r) ==
  Outputs(d, err, sc, sg, r,
          WithMonth(ensure_datetime_col(Filter(d, sc, sg, r), "Date")))

\* lines 140-199 on the ledger d: w holds the filter widgets' values before
\* the run, prev is the ledger of the run before
Display(d, err, w, prev) ==
  IF d.none THEN Raised(err)
  ELSE Filtered(d, err,
                Kept(cats_all(prev), cats_all(d), w.cats),
                Kept(genders_all(prev), genders_all(d), w.genders),
                Kept(DefaultRange(prev), DefaultRange(d), w.dr))

\* The run: source and file are the widgets' values, f the submitted form.
Run(source, file, f, w, prev) ==
  Display(Ledger(source, file, f), LoadDf(source, file).error, w, prev)

\* the widgets and what the run shows, after the run
Shown(source, file, f, out) ==
  /\ data_source' = source
  /\ uploaded_file' = file
  /\ form' = f
  /\ selected_cats' = out.cats
  /\ selected_genders' = out.genders
  /\ dr' = out.dr
  /\ df' = out.df
  /\ dff' = out.dff
  /\ total' = out.total
  /\ avg' = out.avg
  /\ mx' = out.mx
  /\ count' = out.count
  /\ csv' = out.csv
  /\ error' = out.error
  /\ raised' = out.raised

Widgets == [cats |-> selected_cats, genders |-> selected_genders, dr |-> dr]

---------------------------------------------------------------------------------------------------------------------------------------------------
(* What the modelled user can enter *)

\* the rows of an uploaded file with the five columns: a date, a category,
\* an amount (a date with a time of day, a missing category, a negative
\* amount, a date and an amount that are no date and no number)
FullShapes ==
  { <<CsvDate(1), CsvText(T("Groceries")), CsvNum(100)>>,
    <<CsvDateTime(2, 1), CsvEmpty, CsvNum(-50)>>,
    <<CsvText(T("soon")), CsvText(T("Transport")), CsvText(T("abc"))>> }

\* the rows of an uploaded file without Category, Notes and Gender and with
\* a column the dashboard does not know (an infinite amount, missing cells)
PartShapes ==
  { <<CsvDate(3), CsvEmpty, CsvInf(1)>>,
    <<CsvEmpty, CsvEmpty, CsvEmpty>> }

PartCols == <<"Date", "Amount", "Payee">>

RawRow(cols, shape) ==
  [x \in Range(cols) |->
     CASE x = "Date" -> shape[1]
       [] x = "Category" -> shape[2]
       [] x = "Amount" -> shape[3]
       [] x = "Notes" -> CsvText(T("Auto"))
       [] x = "Gender" -> CsvText(T("Male"))
       [] OTHER -> CsvText(T("Shop"))]

SeqsUpTo(S, n) == UNION {[1..k -> S] : k \in 0..n}

CsvFiles(cols, shapes) ==
  {CsvFile(Table(cols, [i \in 1..Len(sh) |-> RawRow(cols, sh[i])])) :
     sh \in SeqsUpTo(shapes, MaxRows)}

Files ==
  {NoFile, BadFile} \cup CsvFiles(RequiredCols, FullShapes)
  \cup CsvFiles(PartCols, PartShapes)

Days == 1..MaxDay

\* the forms submitted: an ordinary transaction, and the same with one field
\* changed, or with the notes and the tags changed
InputGenders == {T("Female"), <<"Prefer", " ", "not", " ", "to", " ", "say">>}
InputCats == {T("Groceries"), T("Health")}
InputAmounts == {0, 250}
InputNotes == {<<>>, T("lunch"), <<" ", "lunch", " ">>}
InputTags == {<<>>, <<T("food")>>, <<T("food"), T("monthly")>>}

Ordinary ==
  [submit |-> TRUE, gender |-> T("Female"), cat |-> T("Groceries"),
   date_input |-> 1, amount |-> 250, notes |-> <<>>, tags |-> <<>>]

Forms ==
  {[Ordinary EXCEPT !.gender = g] : g \in InputGenders \cap GenderOptions}
  \cup {[Ordinary EXCEPT !.cat = c] : c \in InputCats}
  \cup {[Ordinary EXCEPT !.date_input = d] : d \in Days}
  \cup {[Ordinary EXCEPT !.amount = a] : a \in InputAmounts}
  \cup {[Ordinary EXCEPT !.notes = n, !.tags = t] :
          n \in InputNotes, t \in {u \in InputTags : Range(u) \subseteq TagOptions}}

----------------------------------------------------------------------------
(* The session *)

Sources == {"Load sample (recommended)", "Upload file"}

DefaultWidgets(d) ==
  [cats |-> cats_all(d), genders |-> genders_all(d), dr |-> DefaultRange(d)]

\* the first run: every widget has its default
FirstRun(d) ==
  Run("Load sample (recommended)", NoFile, NoSubmit, DefaultWidgets(d), d)

Started(out) ==
  /\ data_source = "Load sample (recommended)"
  /\ uploaded_file = NoFile
  /\ form = NoSubmit
  /\ selected_cats = out.cats
  /\ selected_genders = out.genders
  /\ dr = out.dr
  /\ df = out.df
  /\ dff = out.dff
  /\ total = out.total
  /\ avg = out.avg
  /\ mx = out.mx
  /\ count = out.count
  /\ csv = out.csv
  /\ error = out.error
  /\ raised = out.raised

Init == Started(FirstRun(Ledger("Load sample (recommended)", NoFile, NoSubmit)))

\* line 75: the radio; the uploader exists only under "Upload file"
ChooseSource ==
  \E s \in Sources \ {data_source} :
    Shown(s, NoFile, NoSubmit, Run(s, NoFile, NoSubmit, Widgets, df))

\* line 80: a file is uploaded, replaced or removed
Upload ==
  /\ data_source = "Upload file"
  /\ \E f \in Files \ {uploaded_file} :
       Shown(data_source, f, NoSubmit, Run(data_source, f, NoSubmit, Widgets, df))

\* lines 115-138: "Submit transaction"
Submit ==
  \E f \in Forms :
    /\ f.cat \in cat_options(Ledger(data_source, uploaded_file, NoSubmit))
    /\ Shown(data_source, uploaded_file, f,
             Run(data_source, uploaded_file, f, Widgets, df))

\* the run after the user set the filter widgets to w
Refilter(w) ==
  /\ w # Widgets
  /\ Shown(data_source, uploaded_file, NoSubmit,
           Run(data_source, uploaded_file, NoSubmit, w, df))

\* line 147: the Categories multiselect
ChangeCats ==
  \E cats \in SUBSET cats_all(df) : Refilter([Widgets EXCEPT !.cats = cats])

\* line 149: the Genders multiselect
ChangeGenders ==
  \E genders \in SUBSET genders_all(df) :
    Refilter([Widgets EXCEPT !.genders = genders])

\* line 158: the date range
ChangeDateRange ==
  \E a \in Days, b \in Days :
    a <= b /\ Refilter([Widgets EXCEPT !.dr = <<a, b>>])

\* lines 161-163: a display control changes; the script runs again
ChangeDisplay ==
  Shown(data_source, uploaded_file, NoSubmit,
        Run(data_source, uploaded_file, NoSubmit, Widgets, df))

Next ==
  \/ ChooseSource
  \/ Upload
  \/ Submit
  \/ ChangeCats
  \/ ChangeGenders
  \/ ChangeDateRange
  \/ ChangeDisplay

Spec == Init /\ [][Next]_vars

----------------------------------------------------------------------------
(* Properties *)

IsPrefix(a, b) == Len(a) <= Len(b) /\ \A i \in 1..Len(a) : b[i] = a[i]

Amounts(tb) == [i \in 1..Len(tb.rows) |-> tb.rows[i]["Amount"]]

RECURSIVE SumOf(_)
SumOf(s) == IF s = <<>> THEN Num(0) ELSE FAdd(Head(s), SumOf(Tail(s)))

\* the table read from the source, before normalization
Input == LoadDf(data_source, uploaded_file).df

LastRow == df.rows[Len(df.rows)]

\* C1: the ledger is append-only in a session: over a submission, a filter
\* change or a display change (the source and the file stay as they are)
\* every record of the ledger stays in the ledger, unchanged, at its position.
C1_AppendOnly ==
  [][(data_source' = data_source /\ uploaded_file' = uploaded_file)
       => IsPrefix(df.rows, df'.rows)]_vars

\* C2 as claimed: the normalized table has exactly the five columns Date,
\* Category, Amount, Notes, Gender, whatever the columns of the input.
C2_ExactlyFive == ~raised => Range(df.cols) = Range(RequiredCols)

\* C2 as amended: the normalized table has each of the five columns once and,
\* besides them, the columns of the input; every row has a cell in each.
C2_FiveAndInputCols ==
  /\ ~raised
  /\ Range(df.cols) =
       Range(RequiredCols) \cup (IF Input.none THEN {} ELSE Range(Input.cols))
  /\ Cardinality(Range(df.cols)) = Len(df.cols)
  /\ \A i \in 1..Len(df.rows) : DOMAIN df.rows[i] = Range(df.cols)

C2_Witness ==
  /\ uploaded_file.st = "ok"
  /\ Range(uploaded_file.csv.cols) = {"Date", "Amount", "Payee"}
  /\ Len(df.rows) = MaxRows
  /\ Range(df.cols) = Range(RequiredCols) \cup {"Payee"}

\* C3 as claimed: every amount of the ledger is finite and >= 0.
C3_NonNegativeFinite ==
  \A i \in 1..Len(df.rows) :
    df.rows[i]["Amount"].k = "num" /\ df.rows[i]["Amount"].n >= 0

\* C3 as amended: every amount of the ledger is a number, never a missing
\* value; a cell of the input that is no number (text, a missing cell) is
\* stored as 0; a number of the input, negative and infinite ones included,
\* is stored as it is; an amount added through the form is finite and >= 0.
C3_AmountsAreNumbers ==
  /\ \A i \in 1..Len(df.rows) : df.rows[i]["Amount"].k \in {"num", "inf"}
  /\ uploaded_file.st = "ok" /\ data_source = "Upload file" =>
       \A i \in 1..Len(uploaded_file.csv.rows) :
         LET raw == uploaded_file.csv.rows[i]["Amount"]
             amt == df.rows[i]["Amount"]
         IN CASE raw.k = "numtxt" -> amt = Num(raw.n)
              [] raw.k = "inftxt" -> amt = Inf(raw.n)
              [] OTHER -> amt = Num(0)
  /\ form.submit =>
       LastRow["Amount"] = Num(form.amount) /\ form.amount >= 0

C3_Witness ==
  /\ uploaded_file.st = "ok"
  /\ form.submit
  /\ \E i, j \in 1..Len(uploaded_file.csv.rows) :
       /\ uploaded_file.csv.rows[i]["Amount"] = CsvText(T("abc"))
       /\ df.rows[i]["Amount"] = Num(0)
       /\ df.rows[j]["Amount"] = Num(-50)

\* C4: with the default filter (every category and gender of the ledger, the
\* date range from the least to the greatest date, or today) the filtered
\* subset has as many rows as the ledger; stated here for the ledgers whose
\* records all have a date, where the claim and the exclusion of records
\* without a date do not meet.
C4_DefaultFilterKeepsAll ==
  (/\ ~raised
   /\ selected_cats = cats_all(df)
   /\ selected_genders = genders_all(df)
   /\ dr = DefaultRange(df)
   /\ \A i \in 1..Len(df.rows) : df.rows[i]["Date"].k = "ts")
  => count = Len(df.rows)

\* the record passes the filter: its category and gender are selected and
\* its date is on a day from the start day to the end day, both included
Passes(row) ==
  /\ Label(row["Category"], EmptyLabel) \in selected_cats
  /\ Label(row["Gender"], NotSpecified) \in selected_genders
  /\ row["Date"].k = "ts"
  /\ dr[1] <= row["Date"].n /\ row["Date"].n <= dr[2]

Passing == Select(df, [i \in 1..Len(df.rows) |-> Passes(df.rows[i])])

\* C5: the filtered subset is the records of the ledger that pass the filter,
\* in ledger order, and the total is the sum of their amounts.
C5_FilterExact ==
  ~raised =>
    /\ [i \in 1..Len(dff.rows) |-> [x \in Range(df.cols) |-> dff.rows[i][x]]]
         = Passing.rows
    /\ total = SumOf(Amounts(Passing))

\* ", ".join(tags), from the left
JoinedTags(tags) ==
  LET F[i \in 0..Len(tags)] ==
        IF i = 0 THEN <<>>
        ELSE IF i = 1 THEN tags[1]
        ELSE F[i - 1] \o <<",", " ">> \o tags[i]
  IN F[Len(tags)]

\* s without its leading and trailing blanks
Trimmed(s) ==
  LET inked == {i \in 1..Len(s) : s[i] # " "}
  IN IF inked = {} THEN <<>> ELSE SubSeq(s, SetMin(inked), SetMax(inked))

Tagged(notes, tags) == notes \o <<" ", "|", " ", "Tags:", " ">> \o JoinedTags(tags)

\* C6 as claimed: the notes stored are the notes entered followed by
\* " | Tags: " and the tags joined with ", "; with no tag, the notes entered.
C6_NotesExact ==
  form.submit =>
    LastRow["Notes"] =
      Str(IF form.tags # <<>> THEN Tagged(form.notes, form.tags) ELSE form.notes)

\* C6 as amended: with tags, the notes stored are that text without its
\* leading and trailing blanks; with no tag, exactly the notes entered.
C6_NotesStripped ==
  form.submit =>
    LastRow["Notes"] =
      Str(IF form.tags # <<>> THEN Trimmed(Tagged(form.notes, form.tags))
          ELSE form.notes)

C6_Witness ==
  /\ form.submit
  /\ form.notes = T("lunch")
  /\ form.tags = <<T("food"), T("monthly")>>
  /\ LastRow["Notes"] =
       Str(<<"lunch", " ", "|", " ", "Tags:", " ", "food", ",", " ", "monthly">>)

\* C7: the CSV offered for download has exactly the columns Date, Category,
\* Amount, Notes, Gender, one row per record of the filtered subset, and
\* every Date cell is a date as YYYY-MM-DD or empty.
C7_ExportColumns ==
  ~raised =>
    /\ Range(csv.cols) = Range(RequiredCols)
    /\ Len(csv.rows) = count
    /\ \A i \in 1..Len(csv.rows) : csv.rows[i]["Date"].k \in {"datetxt", "empty"}

\* the download, uploaded again and normalized
ReImported == Normalize(LoadDf("Upload file", CsvFile(csv)).df)

\* C8: the download loaded back has, row by row, the category, the amount and
\* the day of the filtered subset.
C8_RoundTrip ==
  ~raised =>
    /\ Len(ReImported.rows) = Len(dff.rows)
    /\ \A i \in 1..Len(dff.rows) :
         /\ ReImported.rows[i]["Category"] = dff.rows[i]["Category"]
         /\ ReImported.rows[i]["Amount"] = dff.rows[i]["Amount"]
         /\ ReImported.rows[i]["Date"].k = dff.rows[i]["Date"].k
         /\ ReImported.rows[i]["Date"].n = dff.rows[i]["Date"].n

IsLargest(a) ==
  /\ \E i \in 1..Len(dff.rows) : dff.rows[i]["Amount"] = a
  /\ \A i \in 1..Len(dff.rows) : FLeq(dff.rows[i]["Amount"], a)

\* C10: count is the number of records of the filtered subset, total the sum
\* of their amounts, average the total divided by the count and max the
\* largest amount, average and max being 0 for the empty subset.
C10_Kpis ==
  ~raised =>
    /\ count = Len(dff.rows)
    /\ total = SumOf(Amounts(dff))
    /\ count = 0 => avg = Num(0) /\ mx = Num(0)
    /\ count > 0 =>
         /\ IsLargest(mx)
         /\ avg = IF total.k = "num" THEN Ratio(total.n, count) ELSE total

C10_Witness ==
  /\ count = 2 /\ Len(df.rows) = 3
  /\ total = Num(1260) /\ avg = Ratio(1260, 2) /\ mx = Num(1200)

====
